---------------------------- MODULE Spec2Model ----------------------------
(***************************************************************************)
(* fanctl (src/fanctl.py): maps a fanctl intent configuration onto the     *)
(* hwmon entries of the running machine and writes a fancontrol            *)
(* configuration.  The model keeps the text of the generated file as a     *)
(* string, so that the staleness check parses what the emitter wrote.      *)
(***************************************************************************)
EXTENDS Integers, Sequences, FiniteSets, TLC

(***************************************************************************)
(* Bounds of the model.                                                    *)
(***************************************************************************)
\* hwmon entries in /sys/class/hwmon in the single-run specifications
MaxHwmon == 2
\* hwmon entries in the specification that validates rich intent files
MaxHwmonV == 1
\* invocations of the program in the multi-run specifications
MaxRuns == 2

(***************************************************************************)
(* Python str operations, on TLA+ strings.                                 *)
(***************************************************************************)
Char(s, i) == SubSeq(s, i, i)

CharsOf(s) == {Char(s, i) : i \in 1..Len(s)}

SetMin(S) == CHOOSE x \in S : \A y \in S : x <= y

SetMax(S) == CHOOSE x \in S : \A y \in S : x >= y

\* str.startswith
StartsWith(s, p) == Len(s) >= Len(p) /\ SubSeq(s, 1, Len(p)) = p

\* str.split(sep) for a one-character sep: every piece, empty ones included
RECURSIVE SplitFrom(_, _, _)
SplitFrom(s, sep, from) ==
    LET hits == {i \in from..Len(s) : Char(s, i) = sep}
    IN  IF hits = {} THEN <<SubSeq(s, from, Len(s))>>
        ELSE <<SubSeq(s, from, SetMin(hits) - 1)>>
                 \o SplitFrom(s, sep, SetMin(hits) + 1)

Split(s, sep) == SplitFrom(s, sep, 1)

\* str.split(): pieces between runs of whitespace, no empty piece
SplitWs(s) == SelectSeq(Split(s, " "), LAMBDA p : p # "")

\* str.splitlines(): a final line break does not start another line
SplitLines(s) ==
    LET ps == Split(s, "\n")
    IN  IF ps[Len(ps)] = "" THEN SubSeq(ps, 1, Len(ps) - 1) ELSE ps

\* str.strip(chars): drops leading and trailing characters that are in chars
Strip(s, chars) ==
    LET keep == {i \in 1..Len(s) : Char(s, i) \notin CharsOf(chars)}
    IN  IF keep = {} THEN "" ELSE SubSeq(s, SetMin(keep), SetMax(keep))

\* "/".join(parts)
RECURSIVE Join(_, _)
Join(parts, sep) ==
    IF parts = <<>> THEN ""
    ELSE IF Len(parts) = 1 THEN parts[1]
    ELSE parts[1] \o sep \o Join(Tail(parts), sep)

\* str(n) of a non-negative int, as an f-string renders it
RECURSIVE ToStr(_)
ToStr(n) ==
    IF n < 10 THEN Char("0123456789", n + 1)
    ELSE ToStr(n \div 10) \o Char("0123456789", (n % 10) + 1)

(***************************************************************************)
(* Module constants.                                                       *)
(***************************************************************************)
FCCONF == "/etc/fancontrol"

STDOUT == "-"

NoFile == [exists |-> FALSE, text |-> ""]

File(t) == [exists |-> TRUE, text |-> t]

(***************************************************************************)
(* Hardware Enumerator.                                                    *)
(***************************************************************************)
\* get_devpath: the parts of the resolved path between /sys and hwmon/hwmonN
get_devpath(entry) ==
    Join(SubSeq(entry.real, 3, Len(entry.real) - 2), "/")

\* hwmon_detect with the first entry of a driver name kept, not the last
hwmon_detect_FirstWins(t) ==
    LET named(d) == {i \in 1..Len(t) : t[i].hasName /\ t[i].name = d}
        drivers  == {t[i].name : i \in {j \in 1..Len(t) : t[j].hasName}}
    IN  [d \in drivers |->
            [devpath |-> get_devpath(t[SetMin(named(d))]),
             hwmon   |-> t[SetMin(named(d))].id]]

\* hwmon_detect: driver name -> {devpath, hwmon}; entries are visited in
\* sorted order and a later entry of the same driver replaces an earlier one
hwmon_detect(t) ==
    LET named(d) == {i \in 1..Len(t) : t[i].hasName /\ t[i].name = d}
        drivers  == {t[i].name : i \in {j \in 1..Len(t) : t[j].hasName}}
    IN  [d \in drivers |->
            [devpath |-> get_devpath(t[SetMax(named(d))]),
             hwmon   |-> t[SetMax(named(d))].id]]

(***************************************************************************)
(* Config Resolver.                                                        *)
(***************************************************************************)
\* validate_config returning from inside its loop, after the first device
validate_config_FirstOnly(devices) ==
    \A i \in 1..Len(devices) :
        i = 1 =>
            LET settings == devices[i].settings
            IN  /\ \A setting \in {"pwm", "temp", "fan", "limits"} :
                       setting \in DOMAIN settings
                /\ \A lim \in {"st", "temp", "pwm"} :
                       /\ lim \in DOMAIN settings.limits
                       /\ Len(settings.limits[lim]) >= 2

\* validate_config: every device has pwm, temp, fan, limits, and every limit
\* pair is there with at least two values
validate_config(devices) ==
    \A i \in 1..Len(devices) :
        LET settings == devices[i].settings
        IN  /\ \A setting \in {"pwm", "temp", "fan", "limits"} :
                   setting \in DOMAIN settings
            /\ \A lim \in {"st", "temp", "pwm"} :
                   /\ lim \in DOMAIN settings.limits
                   /\ Len(settings.limits[lim]) >= 2

\* the resolved path of an entry, from its parts ("/", "sys", ...)
RealPath(entry) == "/" \o Join(Tail(entry.real), "/")

\* the directory listing of an absolute path of the live tree (nothing is
\* listed for a directory that does not exist)
FilesAt(t, dir) ==
    UNION {t[i].files : i \in {j \in 1..Len(t) : RealPath(t[j]) = dir}}

\* find_hwmon_file: glob {hwmon_type}{mon_id}_* under /sys/{path}/hwmon/{hwmon}
find_hwmon_file(t, path, hwmon, hwmon_type, mon_id) ==
    LET hwmon_path == Join(<<"/sys", path, "hwmon", hwmon>>, "/")
    IN  \E f \in FilesAt(t, hwmon_path) :
            StartsWith(f, hwmon_type \o ToStr(mon_id) \o "_")

assert_hwmon_file(t, dev, hwmon_type, hwmon_id) ==
    find_hwmon_file(t, dev.devpath, dev.hwmon, hwmon_type, hwmon_id)

(***************************************************************************)
(* Emitter.  devices is the resolved mapping, in insertion order.          *)
(***************************************************************************)
\* each piece followed by the delimiter space
RECURSIVE Spaced(_)
Spaced(pieces) ==
    IF pieces = <<>> THEN ""
    ELSE pieces[1] \o " " \o Spaced(Tail(pieces))

\* the loops "for name, settings in devices.items(): line += f"{...} " build
\* one piece for each device, in the order of the mapping
PwmKey(d) == d.settings.hwmon.id \o "/pwm" \o ToStr(d.settings.pwm)

\* _generate_devname writing name=hwmon for hwmon=name
_generate_devname_Swapped(devices) ==
    "DEVNAME=" \o Spaced([i \in 1..Len(devices) |->
                    devices[i].name \o "=" \o devices[i].settings.hwmon.id])

_generate_devname(devices) ==
    "DEVNAME=" \o Spaced([i \in 1..Len(devices) |->
                    devices[i].settings.hwmon.id \o "=" \o devices[i].name])

_generate_devpath(devices) ==
    "DEVPATH=" \o Spaced([i \in 1..Len(devices) |->
                    devices[i].settings.hwmon.id \o "="
                        \o devices[i].settings.hwmon.devpath])

_generate_fctemps(devices) ==
    "FCTEMPS=" \o Spaced([i \in 1..Len(devices) |->
                    PwmKey(devices[i]) \o "=" \o devices[i].settings.hwmon.id
                        \o "/temp" \o ToStr(devices[i].settings.temp) \o "_input"])

_generate_fcfans(devices) ==
    "FCFANS=" \o Spaced([i \in 1..Len(devices) |->
                    PwmKey(devices[i]) \o "=" \o devices[i].settings.hwmon.id
                        \o "/fan" \o ToStr(devices[i].settings.fan) \o "_input"])

\* a pair of limit lines: lim[0] of every device, then lim[1]
Limits(devices, lo, hi, lim) ==
    lo \o Spaced([i \in 1..Len(devices) |->
            PwmKey(devices[i]) \o "=" \o ToStr(devices[i].settings.limits[lim][1])])
       \o "\n" \o
    hi \o Spaced([i \in 1..Len(devices) |->
            PwmKey(devices[i]) \o "=" \o ToStr(devices[i].settings.limits[lim][2])])

_generate_temp_limits(devices) == Limits(devices, "MINTEMP=", "MAXTEMP=", "temp")

_generate_start_limits(devices) == Limits(devices, "MINSTART=", "MINSTOP=", "st")

_generate_pwm_limits(devices) == Limits(devices, "MINPWM=", "MAXPWM=", "pwm")

\* generate_fc_config: seven print() calls, each ending its text with a line break
generate_fc_config(devices) ==
    _generate_devpath(devices) \o "\n" \o
    _generate_devname(devices) \o "\n" \o
    _generate_fctemps(devices) \o "\n" \o
    _generate_fcfans(devices) \o "\n" \o
    _generate_temp_limits(devices) \o "\n" \o
    _generate_start_limits(devices) \o "\n" \o
    _generate_pwm_limits(devices) \o "\n"

(***************************************************************************)
(* Staleness Checker.                                                      *)
(***************************************************************************)
\* the resolved record of a name; config_dict[name] raises KeyError without one
Names(devices) == {devices[i].name : i \in 1..Len(devices)}

Lookup(devices, name) ==
    devices[CHOOSE i \in 1..Len(devices) : devices[i].name = name]

\* the loop over the pairs of the DEVNAME line, from pair i on
RECURSIVE CheckDevs(_, _, _)
CheckDevs(devices, devs, i) ==
    IF i > Len(devs) THEN "False"
    ELSE LET kv == Split(devs[i], "=")
         IN  IF Len(kv) # 2 THEN "ValueError"
             ELSE IF kv[2] \notin Names(devices) THEN "KeyError"
             ELSE IF Lookup(devices, kv[2]).settings.hwmon.id # kv[1] THEN "True"
             ELSE CheckDevs(devices, devs, i + 1)

\* config_invalid: "True", "False", "None" (the loop found no DEVNAME line and
\* the function falls off its end) or the exception it raises
config_invalid(devices, fcconf) ==
    IF ~fcconf.exists THEN "True"
    ELSE LET lines == SplitLines(fcconf.text)
             hits  == {i \in 1..Len(lines) : StartsWith(lines[i], "DEVNAME")}
         IN  IF hits = {} THEN "None"
             ELSE CheckDevs(devices,
                            SplitWs(Strip(lines[SetMin(hits)], "DEVNAME=")), 1)

(***************************************************************************)
(* Inputs: intent configurations and live hardware trees.                  *)
(***************************************************************************)
Limits1 == [st |-> <<50, 150>>, temp |-> <<40, 70>>, pwm |-> <<0, 255>>]

\* nct6775: {pwm: 1, temp: 1, fan: 1, limits: {...}}
Good1 == [pwm |-> 1, temp |-> 1, fan |-> 1, limits |-> Limits1]

\* the second fan header of the chip
Good2 == [pwm |-> 2, temp |-> 1, fan |-> 2, limits |-> Limits1]

\* settings validate_config rejects, and settings with odd limit pairs
OddSettings ==
    { [temp |-> 1, fan |-> 1, limits |-> Limits1],
      [pwm |-> 1, fan |-> 1, limits |-> Limits1],
      [pwm |-> 1, temp |-> 1, limits |-> Limits1],
      [pwm |-> 1, temp |-> 1, fan |-> 1],
      [pwm |-> 1, temp |-> 1, fan |-> 1,
       limits |-> [temp |-> <<40, 70>>, pwm |-> <<0, 255>>]],
      [pwm |-> 1, temp |-> 1, fan |-> 1,
       limits |-> [st |-> <<50, 150>>, pwm |-> <<0, 255>>]],
      [pwm |-> 1, temp |-> 1, fan |-> 1,
       limits |-> [st |-> <<50, 150>>, temp |-> <<40, 70>>]],
      [pwm |-> 1, temp |-> 1, fan |-> 1,
       limits |-> [st |-> <<50>>, temp |-> <<40, 70>>, pwm |-> <<0, 255>>]],
      [pwm |-> 1, temp |-> 1, fan |-> 1,
       limits |-> [st |-> <<50, 150>>, temp |-> <<40, 70>>, pwm |-> <<>>]],
      [pwm |-> 1, temp |-> 1, fan |-> 1,
       limits |-> [st |-> <<50, 150>>, temp |-> <<40, 70, 90>>, pwm |-> <<0, 255>>]],
      [pwm |-> 1, temp |-> 1, fan |-> 1,
       limits |-> [st |-> <<50, 150>>, temp |-> <<70, 40>>, pwm |-> <<0, 255>>]] }

DriverNames == {"nct6775", "amdgpu"}

\* the intent files whose devices take their settings from S: a YAML mapping
\* has distinct keys, and its order is the order of the file
ConfigsOver(S) ==
    {[exists |-> TRUE, devices |-> <<>>]}
    \cup {[exists |-> TRUE, devices |-> <<[name |-> n, settings |-> x]>>] :
              n \in DriverNames, x \in S}
    \cup {[exists |-> TRUE,
           devices |-> <<[name |-> n[1], settings |-> x],
                         [name |-> n[2], settings |-> y]>>] :
              n \in {<<"nct6775", "amdgpu">>, <<"amdgpu", "nct6775">>},
              x \in S, y \in S}

NoConfig == [exists |-> FALSE, devices |-> <<>>]

PlatformDev == <<"/", "sys", "devices", "platform", "nct6775.656", "hwmon">>

PciDev == <<"/", "sys", "devices", "pci0000:00", "0000:01:00.0", "hwmon">>

\* an hwmon entry registered below a class device has no hwmon/ level
ClassDev == <<"/", "sys", "devices", "virtual", "thermal", "thermal_zone0">>

Chip(n, parent, fs) == [hasName |-> TRUE, name |-> n, parent |-> parent, files |-> fs]

NctFull == Chip("nct6775", PlatformDev,
                {"pwm1", "pwm1_enable", "fan1_input", "temp1_input"})

AmdFull == Chip("amdgpu", PciDev,
                {"pwm1", "pwm1_enable", "fan1_input", "temp1_input"})

\* an entry without a name attribute
NoName == [hasName |-> FALSE, name |-> "", parent |-> PlatformDev, files |-> {}]

Chips ==
    { NctFull, AmdFull, NoName,
      \* no fan tachometer at all
      Chip("nct6775", PlatformDev, {"pwm1", "pwm1_enable", "temp1_input"}),
      \* fan1_min is there, fan1_input is not
      Chip("nct6775", PlatformDev, {"pwm1", "pwm1_enable", "fan1_min", "temp1_input"}),
      \* a pwm output with no pwm1_* attribute beside it
      Chip("amdgpu", PciDev, {"pwm1", "fan1_input", "temp1_input"}),
      Chip("amdgpu", ClassDev, {"pwm1", "pwm1_enable", "fan1_input", "temp1_input"}) }

\* the kernel numbers the entries hwmon0, hwmon1, ... in registration order
EntryOf(chip, i) ==
    LET id == "hwmon" \o ToStr(i - 1)
    IN  [id |-> id, hasName |-> chip.hasName, name |-> chip.name,
         real |-> Append(chip.parent, id), files |-> chip.files]

TreesOver(C, n) ==
    UNION {{[i \in 1..k |-> EntryOf(cs[i], i)] : cs \in [1..k -> C]} : k \in 0..n}

ArgsF == {"", "-", "/tmp/fancontrol", "/etc/fancontrol"}

\* what a run of an earlier boot left in /etc/fancontrol
OldArtifact ==
    File(generate_fc_config(
        <<[name |-> "nct6775",
           settings |-> [pwm |-> 1, temp |-> 1, fan |-> 1, limits |-> Limits1,
                         hwmon |-> [devpath |-> "devices/platform/nct6775.656",
                                    id |-> "hwmon1"]]]>>))

(***************************************************************************)
(* State.                                                                  *)
(***************************************************************************)
VARIABLES
    conf,       \* the intent file: [exists, devices]
    tree,       \* the live hwmon entries, in sorted order
    files,      \* the output files: path -> [exists, text]
    argsF,      \* the -f option ("" when it is not given)
    pc,         \* where the run is
    devices,    \* generate_mapping: conf, the parsed intent file
    paths,      \* generate_mapping: what hwmon_detect returned
    idx,        \* generate_mapping: the device the loop is at
    config,     \* the resolved mapping
    stale,      \* what config_invalid returned or raised
    outcome,    \* how the run ended
    exitCode,   \* the exit status of the run
    written,    \* the paths this run opened for writing or wrote to
    hwTouched,  \* whether this run has read the live tree
    runs,       \* the runs started so far
    last,       \* the run before this one: [outcome, written], and whether
                \* conf or tree changed between it and this run
    before,     \* the output files as this run found them
    changed     \* whether conf or tree changed since this run started

vars == <<conf, tree, files, argsF, pc, devices, paths, idx, config, stale,
          outcome, exitCode, written, hwTouched, runs, last, before,
          changed>>

env == <<conf, tree, argsF, runs, last, before, changed>>

NoPaths == [d \in {} |-> 0]

InitRun ==
    /\ pc = "start"
    /\ devices = <<>>
    /\ paths = NoPaths
    /\ idx = 1
    /\ config = <<>>
    /\ stale = "unset"
    /\ outcome = "running"
    /\ exitCode = 0
    /\ written = {}
    /\ hwTouched = FALSE
    /\ runs = 1
    /\ last = [outcome |-> "none", written |-> {}, changed |-> FALSE]
    /\ before = files
    /\ changed = FALSE

Paths == {FCCONF, "/tmp/fancontrol", STDOUT}

(***************************************************************************)
(* The run.                                                                *)
(***************************************************************************)
\* exit(code), or the interpreter ending the process on an uncaught exception
Exit(code, how) ==
    /\ pc' = "exit"
    /\ exitCode' = code
    /\ outcome' = how

\* _parse_config, as generate_mapping and the main block handle what it raises
ParseConfig ==
    /\ pc = "start"
    /\ IF ~conf.exists
          THEN Exit(1, "ConfigNotFound") /\ UNCHANGED devices
       ELSE IF ~validate_config(conf.devices)
          THEN Exit(-1, "ConfigInvalid") /\ UNCHANGED devices
       ELSE /\ devices' = conf.devices
            /\ pc' = "detect"
            /\ UNCHANGED <<exitCode, outcome>>
    /\ UNCHANGED <<env, files, paths, idx, config, stale, written, hwTouched>>

\* paths = hwmon_detect(); config = {}
HwmonDetect ==
    /\ pc = "detect"
    /\ paths' = hwmon_detect(tree)
    /\ hwTouched' = TRUE
    /\ idx' = 1
    /\ config' = <<>>
    /\ pc' = "map"
    /\ UNCHANGED <<env, files, devices, stale, outcome, exitCode, written>>

\* settings.update({"hwmon": {...}})
WithHwmon(settings, dev) ==
    [k \in DOMAIN settings \cup {"hwmon"} |->
        IF k = "hwmon" THEN [devpath |-> dev.devpath, id |-> dev.hwmon]
        ELSE settings[k]]

\* MapDevice leaving out a device with a missing file instead of raising
MapDevice_SkipsMismatch ==
    /\ pc = "map"
    /\ IF idx > Len(devices)
          THEN /\ pc' = "stale"
               /\ UNCHANGED <<idx, config, hwTouched>>
       ELSE LET device   == devices[idx].name
                settings == devices[idx].settings
            IN  IF device \notin DOMAIN paths
                  THEN /\ idx' = idx + 1
                       /\ UNCHANGED <<pc, config, hwTouched>>
                ELSE IF \E hwmon_type \in {"pwm", "fan", "temp"} :
                            ~assert_hwmon_file(tree, paths[device], hwmon_type,
                                               settings[hwmon_type])
                  THEN /\ idx' = idx + 1
                       /\ hwTouched' = TRUE
                       /\ UNCHANGED <<pc, config>>
                ELSE /\ config' = Append(config,
                                     [name |-> device,
                                      settings |-> WithHwmon(settings, paths[device])])
                     /\ idx' = idx + 1
                     /\ hwTouched' = TRUE
                     /\ UNCHANGED pc
    /\ UNCHANGED <<env, files, devices, paths, stale, written, exitCode, outcome>>

\* one turn of the loop of generate_mapping, or its return
MapDevice ==
    /\ pc = "map"
    /\ IF idx > Len(devices)
          THEN /\ pc' = "stale"
               /\ UNCHANGED <<idx, config, exitCode, outcome, hwTouched>>
       ELSE LET device   == devices[idx].name
                settings == devices[idx].settings
            IN  IF device \notin DOMAIN paths
                  THEN /\ idx' = idx + 1
                       /\ UNCHANGED <<pc, config, exitCode, outcome, hwTouched>>
                ELSE IF \E hwmon_type \in {"pwm", "fan", "temp"} :
                            ~assert_hwmon_file(tree, paths[device], hwmon_type,
                                               settings[hwmon_type])
                  THEN /\ Exit(-1, "HardwareMismatch")
                       /\ hwTouched' = TRUE
                       /\ UNCHANGED <<idx, config>>
                ELSE /\ config' = Append(config,
                                     [name |-> device,
                                      settings |-> WithHwmon(settings, paths[device])])
                     /\ idx' = idx + 1
                     /\ hwTouched' = TRUE
                     /\ UNCHANGED <<pc, exitCode, outcome>>
    /\ UNCHANGED <<env, files, devices, paths, stale, written>>

\* "if not config_invalid(config) and not args.f": None is as false as False,
\* and an exception of config_invalid is caught nowhere
CheckStale ==
    /\ pc = "stale"
    /\ stale' = config_invalid(config, files[FCCONF])
    /\ IF stale' \in {"KeyError", "ValueError"}
          THEN Exit(1, stale')
       ELSE IF stale' \in {"False", "None"} /\ argsF = ""
          THEN Exit(0, "skipped")
       ELSE pc' = "open" /\ UNCHANGED <<exitCode, outcome>>
    /\ UNCHANGED <<env, files, devices, paths, idx, config, written, hwTouched>>

\* where the main block writes to
Target == IF argsF = "" THEN FCCONF ELSE argsF

\* conf_out = sys.stdout, or Path(...).open("w"), which empties the file
OpenOutput ==
    /\ pc = "open"
    /\ IF argsF = STDOUT
          THEN UNCHANGED <<files, written>>
       ELSE /\ files' = [files EXCEPT ![Target] = File("")]
            /\ written' = written \cup {Target}
    /\ pc' = "write"
    /\ UNCHANGED <<env, devices, paths, idx, config, stale, outcome, exitCode,
                   hwTouched>>

\* open() raises an IOError (errno 13 when the path is not writable)
OpenDenied ==
    /\ pc = "open"
    /\ argsF # STDOUT
    /\ Exit(1, "IOError")
    /\ UNCHANGED <<env, files, devices, paths, idx, config, stale, written,
                   hwTouched>>

\* generate_fc_config(config, conf_out); exit(0) flushes the stream
WriteOutput ==
    /\ pc = "write"
    /\ files' = [files EXCEPT ![Target] = File(generate_fc_config(config))]
    /\ written' = written \cup {Target}
    /\ Exit(0, "ok")
    /\ UNCHANGED <<env, devices, paths, idx, config, stale, hwTouched>>

Run ==
    \/ ParseConfig
    \/ HwmonDetect
    \/ MapDevice
    \/ CheckStale
    \/ OpenOutput
    \/ OpenDenied
    \/ WriteOutput

(***************************************************************************)
(* One run, on any hardware tree.                                          *)
(***************************************************************************)
Init ==
    /\ conf \in ConfigsOver({Good1, Good2}) \cup {NoConfig}
    /\ tree \in TreesOver(Chips, MaxHwmon)
    /\ argsF \in ArgsF
    /\ files \in {[p \in Paths |-> IF p = FCCONF THEN f ELSE NoFile] :
                    f \in {NoFile, OldArtifact}}
    /\ InitRun

Next == Run

Spec == Init /\ [][Next]_vars

(***************************************************************************)
(* One run, on any intent file.                                            *)
(***************************************************************************)
InitValidate ==
    /\ conf \in ConfigsOver({Good1} \cup OddSettings) \cup {NoConfig}
    /\ tree \in TreesOver(Chips, MaxHwmonV)
    /\ argsF \in ArgsF
    /\ files = [p \in Paths |-> NoFile]
    /\ InitRun

SpecValidate == InitValidate /\ [][Next]_vars

(***************************************************************************)
(* Runs one after the other, as the init system starts the program at each *)
(* boot with the same command line.  Between two runs one thing may        *)
(* happen: the machine comes up with its hwmon entries renumbered, added   *)
(* or removed, or the intent file is edited.                               *)
(***************************************************************************)
RerunConfigs == ConfigsOver({Good1})

\* the machine has an nct6775 and an amdgpu; each may be there or not, and
\* they register in either order
RerunTrees ==
    {[i \in 1..Len(cs) |-> EntryOf(cs[i], i)] :
        cs \in {<<>>, <<NctFull>>, <<AmdFull>>, <<NctFull, AmdFull>>,
                <<AmdFull, NctFull>>}}

Between ==
    /\ pc = "exit"
    /\ runs < MaxRuns
    /\ ~changed
    /\ outcome # "killed"

Reboot ==
    /\ Between
    /\ tree' \in RerunTrees \ {tree}
    /\ changed' = TRUE
    /\ UNCHANGED <<conf, files, argsF, pc, devices, paths, idx, config, stale,
                   outcome, exitCode, written, hwTouched, runs, last, before>>

EditConfig ==
    /\ Between
    /\ conf' \in RerunConfigs \ {conf}
    /\ changed' = TRUE
    /\ UNCHANGED <<tree, files, argsF, pc, devices, paths, idx, config, stale,
                   outcome, exitCode, written, hwTouched, runs, last, before>>

\* the program is started again
StartRun ==
    /\ pc = "exit"
    /\ runs < MaxRuns
    /\ runs' = runs + 1
    /\ last' = [outcome |-> outcome, written |-> written, changed |-> changed]
    /\ changed' = FALSE
    /\ files' = [files EXCEPT ![STDOUT] = NoFile]
    /\ before' = files'
    /\ pc' = "start"
    /\ devices' = <<>>
    /\ paths' = NoPaths
    /\ idx' = 1
    /\ config' = <<>>
    /\ stale' = "unset"
    /\ outcome' = "running"
    /\ exitCode' = 0
    /\ written' = {}
    /\ hwTouched' = FALSE
    /\ UNCHANGED <<conf, tree, argsF>>

InitRerun ==
    /\ conf \in RerunConfigs
    /\ tree \in RerunTrees
    /\ argsF \in ArgsF
    /\ files = [p \in Paths |-> NoFile]
    /\ InitRun

NextRerun ==
    \/ Run
    \/ Reboot
    \/ EditConfig
    \/ StartRun

SpecRerun == InitRerun /\ [][NextRerun]_vars

(***************************************************************************)
(* The same, with runs that are killed while they write: the process dies  *)
(* between open("w") and the flush of the stream, or the machine does with *)
(* a part of the text on disk.  The program is started again afterwards.   *)
(***************************************************************************)
Crash ==
    /\ pc = "write"
    /\ argsF # STDOUT
    /\ runs < MaxRuns
    /\ \E k \in 0..(Len(generate_fc_config(config)) - 1) :
           files' = [files EXCEPT
                        ![Target] = File(SubSeq(generate_fc_config(config), 1, k))]
    /\ written' = written \cup {Target}
    /\ Exit(137, "killed")
    /\ UNCHANGED <<env, devices, paths, idx, config, stale, hwTouched>>

NextCrash ==
    \/ NextRerun
    \/ Crash

SpecCrash == InitRerun /\ [][NextCrash]_vars

(***************************************************************************)
(* What the claims speak of, stated on the inputs.                         *)
(***************************************************************************)
\* the entry a driver name stands for: the last one of the scan with that name
LiveNames == {tree[i].name : i \in {j \in 1..Len(tree) : tree[j].hasName}}

LiveEntry(n) ==
    tree[SetMax({i \in 1..Len(tree) : tree[i].hasName /\ tree[i].name = n})]

\* /sys/<devicePath>/hwmon/<monitorId>/, devicePath being what lies between
\* /sys and the entry's last two path segments
ChannelDir(e) ==
    "/sys/" \o Join(SubSeq(e.real, 3, Len(e.real) - 2), "/") \o "/hwmon/" \o e.id

ListingOf(dir) ==
    UNION {tree[i].files : i \in {j \in 1..Len(tree) :
                                     "/" \o Join(Tail(tree[j].real), "/") = dir}}

\* a file {type}{channel}_* of the entry is there
ChannelPresent(e, type, n) ==
    \E f \in ListingOf(ChannelDir(e)) :
        LET want == type \o ToStr(n) \o "_"
        IN  Len(f) >= Len(want) /\ SubSeq(f, 1, Len(want)) = want

Declared == {conf.devices[i] : i \in 1..Len(conf.devices)}

DeclaredPresent == {d \in Declared : d.name \in LiveNames}

\* a declared device is in the scan and one of its channels has no file
ChannelMissing ==
    \E d \in DeclaredPresent : \E type \in {"pwm", "fan", "temp"} :
        ~ChannelPresent(LiveEntry(d.name), type, d.settings[type])

\* the mapping was returned to the main block
Resolved ==
    \/ pc \in {"stale", "open", "write"}
    \/ pc = "exit" /\ outcome \in {"ok", "skipped", "IOError", "KeyError", "ValueError"}

(***************************************************************************)
(* C1: when a declared device is in the live scan by driver name and one   *)
(* of its pwm/fan/temp channels has no file, the run fails with the        *)
(* hardware mismatch, opens and writes no output at any point, leaves      *)
(* every output file as it found it, and emits nothing, whatever devices   *)
(* it had resolved before.                                                 *)
(***************************************************************************)
C1_NoOutputOnMismatch ==
    (conf.exists /\ ChannelMissing) =>
        /\ pc \in {"start", "detect", "map", "exit"}
        /\ pc = "exit" => (outcome = "HardwareMismatch" /\ exitCode = -1)
        /\ written = {}
        /\ files = before

\* the run failed on its second device, after resolving the first, with an
\* artifact of an earlier run in place
C1_Witness ==
    /\ pc = "exit"
    /\ outcome = "HardwareMismatch"
    /\ ChannelMissing
    /\ Len(config) = 1
    /\ before[FCCONF].exists
    /\ files[FCCONF] = before[FCCONF]

(***************************************************************************)
(* C5: every sensor file an emitted artifact refers to is in the live      *)
(* tree: for every resolved device pwm<pwm>, temp<temp>_input and          *)
(* fan<fan>_input are files of /sys/<devicePath>/hwmon/<monitorId>/.       *)
(***************************************************************************)
C5_ReferencedFilesExist ==
    outcome = "ok" =>
        \A i \in 1..Len(config) :
            LET d  == config[i].settings
                at == ListingOf("/sys/" \o d.hwmon.devpath \o "/hwmon/" \o d.hwmon.id)
            IN  /\ ("pwm" \o ToStr(d.pwm)) \in at
                /\ ("temp" \o ToStr(d.temp) \o "_input") \in at
                /\ ("fan" \o ToStr(d.fan) \o "_input") \in at

(***************************************************************************)
(* C8: on a valid intent file and a live scan in which every channel of    *)
(* the declared and present devices has its file, resolution succeeds, the *)
(* resolved mapping has exactly the declared names that are driver names   *)
(* of the scan, each record carries its declared settings with the monitor *)
(* handle and device path of the live entry of that driver, and a declared *)
(* device that is not in the scan raises nothing.                          *)
(***************************************************************************)
C8_ResolvesDeclaredAndPresent ==
    (conf.exists /\ ~ChannelMissing) =>
        /\ outcome \notin {"HardwareMismatch", "ConfigInvalid", "ConfigNotFound"}
        /\ Resolved =>
            /\ Len(config) = Cardinality(DeclaredPresent)
            /\ {config[i].name : i \in 1..Len(config)}
                   = {d.name : d \in DeclaredPresent}
            /\ \A i \in 1..Len(config) :
                   LET r == config[i]
                       e == LiveEntry(r.name)
                   IN  /\ r.settings.hwmon.id = e.id
                       /\ ChannelDir(e) = "/sys/" \o r.settings.hwmon.devpath
                                             \o "/hwmon/" \o e.id
                       /\ ChannelDir(e) = "/" \o Join(Tail(e.real), "/")
                       /\ \E d \in Declared :
                              /\ d.name = r.name
                              /\ \A k \in DOMAIN d.settings :
                                     r.settings[k] = d.settings[k]

\* two devices are declared, one is in the scan twice and resolves to its
\* later entry, the other is not in the scan
C8_Witness ==
    /\ Resolved
    /\ ~ChannelMissing
    /\ Len(conf.devices) = 2
    /\ Len(config) = 1
    /\ Len(tree) = 2
    /\ tree[1].name = tree[2].name
    /\ config[1].settings.hwmon.id = "hwmon1"

(***************************************************************************)
(* C6: an intent file in which a device lacks pwm, temp, fan or limits, or *)
(* lacks one of the limit pairs st, temp, pwm or has one shorter than two, *)
(* is rejected before the hardware is enumerated or any channel file is    *)
(* looked for, on every live tree, the offending device present or not.    *)
(***************************************************************************)
Incomplete(settings) ==
    \/ \E k \in {"pwm", "temp", "fan", "limits"} : k \notin DOMAIN settings
    \/ \E l \in {"st", "temp", "pwm"} :
           \/ l \notin DOMAIN settings.limits
           \/ Len(settings.limits[l]) < 2

C6_ValidationPrecedesHardware ==
    (conf.exists /\ \E d \in Declared : Incomplete(d.settings)) =>
        /\ ~hwTouched
        /\ pc \in {"start", "exit"}
        /\ pc = "exit" => (outcome = "ConfigInvalid" /\ exitCode = -1)
        /\ paths = NoPaths
        /\ config = <<>>
        /\ written = {}
        /\ files = before

\* the rejected file declares a complete device that is in the scan, then an
\* incomplete one that is not
C6_Witness ==
    /\ pc = "exit"
    /\ outcome = "ConfigInvalid"
    /\ Len(conf.devices) = 2
    /\ ~Incomplete(conf.devices[1].settings)
    /\ conf.devices[1].name \in LiveNames
    /\ Incomplete(conf.devices[2].settings)
    /\ conf.devices[2].name \notin LiveNames
    /\ ~hwTouched

(***************************************************************************)
(* C7: an intent file is accepted only if every limit pair of every device *)
(* has exactly two values, the first not above the second.                 *)
(***************************************************************************)
Accepted ==
    \/ pc \in {"detect", "map", "stale", "open", "write"}
    \/ pc = "exit" /\ outcome \notin {"ConfigNotFound", "ConfigInvalid"}

C7_OnlyOrderedPairsAccepted ==
    Accepted =>
        \A d \in Declared : \A l \in {"st", "temp", "pwm"} :
            /\ Len(d.settings.limits[l]) = 2
            /\ d.settings.limits[l][1] <= d.settings.limits[l][2]


(***************************************************************************)
(* The persisted artifact, read by the grammar of the file: the first line *)
(* DEVNAME=<monitorId>=<driverName> ..., its pairs separated by spaces.    *)
(***************************************************************************)
DevnameLines(text) ==
    LET lines == Split(text, "\n")
    IN  {i \in 1..Len(lines) :
            Len(lines[i]) >= 8 /\ SubSeq(lines[i], 1, 8) = "DEVNAME="}

HasDevname(f) == f.exists /\ DevnameLines(f.text) # {}

\* the <monitorId, driverName> pairs of the DEVNAME line
PersistedPairs(f) ==
    LET lines == Split(f.text, "\n")
        line  == lines[SetMin(DevnameLines(f.text))]
        toks  == SplitWs(SubSeq(line, 9, Len(line)))
    IN  {<<Split(toks[i], "=")[1], Split(toks[i], "=")[2]>> :
            i \in {j \in 1..Len(toks) : Len(Split(toks[j], "=")) = 2}}

ResolvedPairs == {<<config[i].settings.hwmon.id, config[i].name>> : i \in 1..Len(config)}

ResolvedNames == {config[i].name : i \in 1..Len(config)}

(***************************************************************************)
(* C2: when the persisted artifact exists and has a DEVNAME line, and one  *)
(* of its pairs has a monitor handle other than the freshly resolved one   *)
(* of its name, or names a driver the resolved mapping does not have, the  *)
(* staleness check returns true.                                           *)
(***************************************************************************)
C2_MismatchOrMissingIsStale ==
    (/\ stale # "unset"
     /\ HasDevname(before[FCCONF])
     /\ \E pair \in PersistedPairs(before[FCCONF]) :
            \/ pair[2] \notin ResolvedNames
            \/ pair \notin ResolvedPairs)
        => stale = "True"

(***************************************************************************)
(* C3: a run skips regeneration as not stale only if the persisted         *)
(* artifact exists, has its DEVNAME line, and every pair of that line is a *)
(* pair of the resolved mapping.                                           *)
(***************************************************************************)
C3_NotStaleOnlyIfAllMatch ==
    outcome = "skipped" =>
        /\ HasDevname(before[FCCONF])
        /\ PersistedPairs(before[FCCONF]) \subseteq ResolvedPairs

(***************************************************************************)
(* C4: a run that follows a run that generated the artifact, with the same *)
(* command line on the same intent file and live scan, gets false from the *)
(* staleness check and writes nothing.                                     *)
(***************************************************************************)
SecondRunSkips ==
    /\ stale \in {"unset", "False"}
    /\ written = {}
    /\ pc \in {"start", "detect", "map", "stale", "exit"}
    /\ pc = "exit" => (outcome = "skipped" /\ stale = "False" /\ files = before)

C4_SecondRunSkips ==
    (runs >= 2 /\ last.outcome = "ok" /\ ~last.changed) => SecondRunSkips

\* C4, amended: the same of the runs started without the -f option
C4_SecondRunSkipsWithoutF ==
    (argsF = "" /\ runs >= 2 /\ last.outcome = "ok" /\ ~last.changed)
        => SecondRunSkips

\* the second run found the artifact of the first, of two devices, and left it
C4_Witness ==
    /\ argsF = ""
    /\ runs = 2
    /\ last.outcome = "ok"
    /\ ~last.changed
    /\ pc = "exit"
    /\ outcome = "skipped"
    /\ Len(config) = 2
    /\ files[FCCONF] = File(generate_fc_config(config))

(***************************************************************************)
(* C9: when a run was killed while it wrote and left a part of the output, *)
(* the next run on the same intent file and live scan regenerates the      *)
(* artifact: once it has completed, the artifact is the whole output of    *)
(* the resolved mapping.                                                   *)
(***************************************************************************)
C9_RerunRegenerates ==
    (/\ runs >= 2
     /\ last.outcome = "killed"
     /\ ~last.changed
     /\ pc = "exit"
     /\ exitCode = 0)
        => files[Target] = File(generate_fc_config(config))

(***************************************************************************)
(* C10: when a run skips regeneration because the staleness check returned *)
(* false, the pairs of the DEVNAME line of the persisted artifact are      *)
(* exactly the (monitorId, name) pairs of the resolved mapping.            *)
(***************************************************************************)
C10_SkippedArtifactIsCurrent ==
    (outcome = "skipped" /\ stale = "False") =>
        /\ HasDevname(before[FCCONF])
        /\ PersistedPairs(before[FCCONF]) = ResolvedPairs

=============================================================================
